---- MODULE Spec2Model ----
(***************************************************************************)
(* Credential and verification lifecycle of the affiliate-management       *)
(* backend: the in-process login throttle and the login endpoints          *)
(* (routers/auth.py, auth_utils.py), the password-reset tokens (crud.py,    *)
(* auth_utils.py) and the bearer-token gate (auth_utils.get_current_user).  *)
(*                                                                         *)
(* Strings of the program are sequences of atoms (TLA+ strings), so that    *)
(* lower(), strip(), split() and concatenation are computed, not assumed.   *)
(* Time is datetime.utcnow() in whole seconds.  A handler is cut into steps *)
(* at the awaits where another request can run.                             *)
(***************************************************************************)
EXTENDS Integers, Sequences, FiniteSets, Bags, TLC

VARIABLES
    now,              \* datetime.utcnow(), in seconds
    users,            \* the users collection: email -> models.User, or NoUser
    _login_attempts,  \* auth_utils._login_attempts: identifier -> deque of datetimes
    in_flight,        \* the bag of login requests suspended in `await crud.authenticate_user`: their endpoint and identifier
    response,         \* the last HTTP response a login endpoint produced
    failure_log,      \* history: per identifier, the times of the rejected logins (401, or 403 for the wrong role) of the last _LOCKOUT_WINDOW_SECONDS since its last successful login
    peak_in_flight,   \* history: the largest number of login requests that were in flight at once
    tokens,           \* the email_verification_tokens collection: token string -> record
    next_token,       \* the next fresh value of generate_verification_token()
    resetting,        \* the bag of calls of reset_password_with_token suspended at an await: the await ("find_user", "save_user", "mark_used") and the locals token_record and user
    reset_result,     \* what the last step returned: the result of reset_password_with_token with the token submitted, or the response of /forgot-password or /resend-password-reset
    reset_count,      \* history: the number of successful resets per token string
    resend_pc,        \* resend_password_reset_email suspended before it creates the new token: its email, or NoEmail
    issued,           \* the bearer tokens create_access_token has signed
    gate_result,      \* the last outcome of get_current_user
    hasher,           \* the last call of the password hasher: its operation, the password, the stored form and the result
    affiliate_requests, \* the affiliate_requests collection: request id -> the status of the document, or "absent"
    new_users,        \* the User documents approve_affiliate_request inserted, in order: each the id of the request whose email it carries
    affiliates,       \* the affiliates collection, in order of insertion
    reviewing,        \* the bag of calls of approve_affiliate_request and reject_affiliate_request suspended at an await
    review_result,    \* what the last call of approve_affiliate_request or reject_affiliate_request returned
    reviewed          \* history: per request, the number of calls that returned an approval or a rejection

vars == <<now, users, _login_attempts, in_flight, response, failure_log, peak_in_flight,
          tokens, next_token, resetting, reset_result, reset_count,
          resend_pc, issued, gate_result, hasher,
          affiliate_requests, new_users, affiliates, reviewing, review_result, reviewed>>

login_vars == <<_login_attempts, in_flight, response, failure_log, peak_in_flight>>
reset_vars == <<tokens, next_token, resetting, reset_result, reset_count, resend_pc>>
gate_vars  == <<issued, gate_result>>
hasher_vars == <<hasher>>
review_vars == <<affiliate_requests, new_users, affiliates, reviewing, review_result, reviewed>>

----------------------------------------------------------------------------
(* Bounds of the model *)

\* the number of login requests that can be in flight at once
NLogin == 2
\* the number of clock ticks of the login specification
MaxTicks == 2
\* the number of reset-password requests that can be in flight at once
NReset == 2
\* the number of password-reset tokens ever generated
MaxTokens == 2
\* the number of clock ticks of the reset and gate specifications
MaxSteps == 2
\* the number of bearer tokens ever signed
MaxIssued == 2
\* the number of affiliate requests
MaxRequests == 2
\* the number of review calls that can be in flight at once
NReview == 2

(* Program constants *)
_LOCKOUT_WINDOW_SECONDS == 300
_MAX_ATTEMPTS == 10
ACCESS_TOKEN_EXPIRE_MINUTES == 30
max_attempts == 5

----------------------------------------------------------------------------
(* Strings *)

\* str.lower() on one character
LowerChar(c) ==
    CASE c = "A" -> "a"
      [] c = "X" -> "x"
      [] c = "B" -> "b"
      [] OTHER -> c

\* str.lower()
Lower(s) == [i \in DOMAIN s |-> LowerChar(s[i])]

RECURSIVE LStrip(_)
LStrip(s) == IF s # << >> /\ Head(s) = " " THEN LStrip(Tail(s)) ELSE s

RECURSIVE RStrip(_)
RStrip(s) == IF s # << >> /\ s[Len(s)] = " " THEN RStrip(SubSeq(s, 1, Len(s) - 1)) ELSE s

\* str.strip()
Strip(s) == RStrip(LStrip(s))

\* the email taken as the throttle key as the client wrote it
NormalizeEmail_as_submitted(email) == email

\* identifier = login_data.email.lower().strip()
NormalizeEmail(email) == Strip(Lower(email))

NoEmail == << >>

\* the emails a client submits
RawEmails == { <<"a", "@", "x">>, <<" ", "A", "@", "X", " ">> }

\* the emails of the accounts
Emails == { <<"a", "@", "x">> }

Passwords == { <<"p", "1">>, <<"p", "2">> }

Salts == { <<"s", "1">>, <<"s", "2">> }

\* the salt of the stored passwords of the initial accounts
InitialSalt == <<"s", "1">>

\* a salt secrets.token_hex(16) draws after start: none of the stored ones
FreshSalts == Salts \ {InitialSalt}

----------------------------------------------------------------------------
(* Password hasher *)

\* hashlib.sha256(data).hexdigest(): an injective image of the data
Sha256Hex(data) == <<"#">> \o data

\* simple_hash_password with the salt secrets.token_hex(16) drew
simple_hash_password(password, salt) == salt \o <<":">> \o Sha256Hex(password \o salt)

\* the index of the first ":" of s, 0 if there is none
RECURSIVE FirstColon(_, _)
FirstColon(s, i) ==
    IF i > Len(s) THEN 0 ELSE IF s[i] = ":" THEN i ELSE FirstColon(s, i + 1)

\* simple_verify_password taking one salt for every stored form
simple_verify_password_global_salt(password, hashed_password) ==
    LET c == FirstColon(hashed_password, 1) IN
    IF c = 0
    THEN FALSE
    ELSE Sha256Hex(password \o InitialSalt)
            = SubSeq(hashed_password, c + 1, Len(hashed_password))

\* simple_verify_password reading a form without ":" as an unsalted hash
simple_verify_password_unsalted(password, hashed_password) ==
    LET c == FirstColon(hashed_password, 1) IN
    Sha256Hex(password \o SubSeq(hashed_password, 1, c - 1))
        = SubSeq(hashed_password, c + 1, Len(hashed_password))

simple_verify_password(password, hashed_password) ==
    LET c == FirstColon(hashed_password, 1) IN
    IF c = 0
    THEN FALSE      \* split(":", 1) yields one part: the unpacking raises, caught
    ELSE LET salt == SubSeq(hashed_password, 1, c - 1)
             stored_hash == SubSeq(hashed_password, c + 1, Len(hashed_password))
         IN Sha256Hex(password \o salt) = stored_hash

verify_password(plain_password, hashed_password) ==
    simple_verify_password(plain_password, hashed_password)

get_password_hash(password, salt) == simple_hash_password(password, salt)

\* a Python value handed to the hasher as the stored form: a str or another object
PyStr(s) == [type |-> "str", value |-> s]
PyNone == [type |-> "NoneType", value |-> << >>]
PyInt == [type |-> "int", value |-> << >>]

\* verify_password(plain_password, value) for any value: on a value that is no
\* str, hashed_password.split raises AttributeError inside the try and the bare
\* except returns False
verify_password_value(plain_password, value) ==
    IF value.type # "str" THEN FALSE ELSE verify_password(plain_password, value.value)

\* a call of the hasher: the operation, its password, the stored form it took
\* or produced, and what verify_password returned
HasherCall(op, password, hashed_password, result) ==
    [op |-> op, password |-> password, hashed_password |-> hashed_password,
     result |-> result]

NoCall == HasherCall("none", << >>, PyNone, FALSE)

\* get_password_hash(password), with the salt secrets.token_hex(16) drew
HashPassword(password, salt) ==
    hasher' = HasherCall("hash", password, PyStr(get_password_hash(password, salt)), FALSE)

\* verify_password(password, hashed_password) on the stored form at hand
VerifyPassword(password) ==
    hasher' = HasherCall("verify", password, hasher.hashed_password,
                         verify_password_value(password, hasher.hashed_password))

----------------------------------------------------------------------------
(* Account store *)

NoUser == [kind |-> "none"]

User(email, hashed_password, is_admin, is_active) ==
    [kind |-> "user", email |-> email, hashed_password |-> hashed_password,
     is_admin |-> is_admin, is_active |-> is_active]

\* models.User.find_one(models.User.email == email)
FindUser(store, email) == IF email \in DOMAIN store THEN store[email] ELSE NoUser

\* the password each account was created with
InitialPassword == <<"p", "1">>

----------------------------------------------------------------------------
(* Login throttle *)

RECURSIVE PopStale(_, _)
\* while attempts and attempts[0] < window_start: attempts.popleft()
PopStale(attempts, window_start) ==
    IF attempts # << >> /\ Head(attempts) < window_start
    THEN PopStale(Tail(attempts), window_start)
    ELSE attempts

\* _login_attempts[identifier] of the defaultdict, without creating the entry
Attempts(map, identifier) ==
    IF identifier \in DOMAIN map THEN map[identifier] ELSE << >>

\* the map after _prune_attempts(identifier) at time t (the lookup creates the entry)
_prune_attempts(map, identifier, t) ==
    LET window_start == t - _LOCKOUT_WINDOW_SECONDS IN
    [k \in DOMAIN map \cup {identifier} |->
        IF k = identifier THEN PopStale(Attempts(map, identifier), window_start)
        ELSE map[k]]

\* is_login_allowed with the bound compared by <= instead of <
is_login_allowed_inclusive(map, identifier, t) ==
    Len(_prune_attempts(map, identifier, t)[identifier]) <= _MAX_ATTEMPTS

\* is_login_allowed counting the stored entries without pruning the stale ones
is_login_allowed_unpruned(map, identifier, t) ==
    Len(Attempts(map, identifier)) < _MAX_ATTEMPTS

\* the value is_login_allowed(identifier) returns at time t
is_login_allowed(map, identifier, t) ==
    Len(_prune_attempts(map, identifier, t)[identifier]) < _MAX_ATTEMPTS

\* register_login_failure storing the new attempt in place of the window
register_login_failure_overwrite(map, identifier, t) ==
    [k \in DOMAIN map \cup {identifier} |-> IF k = identifier THEN <<t>> ELSE map[k]]

\* the map after register_login_failure(identifier) at time t
register_login_failure(map, identifier, t) ==
    LET pruned == _prune_attempts(map, identifier, t) IN
    [pruned EXCEPT ![identifier] = Append(@, t)]

\* register_login_success reading the entry without removing it
register_login_success_keep(map, identifier) == map

\* the map after register_login_success(identifier)
register_login_success(map, identifier) ==
    [k \in DOMAIN map \ {identifier} |-> map[k]]

----------------------------------------------------------------------------
(* Bearer tokens *)

NoToken == [kind |-> "none"]

\* payload.get("user_type") of a token whose payload has no such claim
NoClaim == "None"

\* create_access_token taking the 15 minutes of the call without expires_delta
create_access_token_default_expiry(sub, expires_delta, t) ==
    [kind |-> "jwt", sub |-> sub, exp |-> t + 15 * 60, key |-> "SECRET_KEY",
     user_type |-> NoClaim]

\* jwt.encode(to_encode, SECRET_KEY) with exp = utcnow() + expires_delta; the
\* login endpoints pass data = {"sub": user.email}, a payload without user_type
create_access_token(sub, expires_delta, t) ==
    [kind |-> "jwt", sub |-> sub, exp |-> t + expires_delta, key |-> "SECRET_KEY",
     user_type |-> NoClaim]

----------------------------------------------------------------------------
(* Login endpoints: /admin/login, /affiliate/login, /referral/login, /login *)

Endpoints == {"admin_login", "affiliate_login", "referral_login", "login"}

\* a login request suspended at its await
LoginRequest(endpoint, identifier) ==
    [kind |-> "login", endpoint |-> endpoint, identifier |-> identifier]

NoResponse == [kind |-> "none"]

\* a response of a login endpoint; store_queried and password_hashed tell
\* whether handling the request read the account store and hashed a password
Reply(endpoint, identifier, status, detail, token, store_queried, password_hashed) ==
    [kind |-> "response", endpoint |-> endpoint, identifier |-> identifier,
     status |-> status, detail |-> detail, token |-> token,
     store_queried |-> store_queried, password_hashed |-> password_hashed,
     prior_failures |-> 0, submitted |-> NoEmail]

\* history: the response to a successful login, with the number of failures the
\* window of its identifier held when it succeeded
AfterFailures(reply, n) == [reply EXCEPT !.prior_failures = n]

\* history: the 429 response, with the email as the client wrote it
Submitted(reply, email) == [reply EXCEPT !.submitted = email]

\* crud.authenticate_user: the user, or NoUser (None) for an unknown email, a wrong
\* password, or a failure of the store (the exception is caught)
authenticate_user(store, email, password, store_ok) ==
    IF ~store_ok THEN NoUser
    ELSE LET user == FindUser(store, email) IN
         IF user = NoUser \/ ~verify_password(password, user.hashed_password)
         THEN NoUser
         ELSE user

\* the detail of the 401 of each endpoint
InvalidCredentialsDetail(endpoint) ==
    CASE endpoint = "admin_login" -> "Invalid admin credentials"
      [] endpoint = "affiliate_login" -> "Invalid affiliate credentials"
      [] endpoint = "referral_login" -> "Invalid referral credentials"
      [] OTHER -> "Incorrect email or password"

\* the endpoints admitting every role
WrongRole_unchecked(endpoint, user) == FALSE

\* the role check of each endpoint: TRUE when the user is turned away with 403
WrongRole(endpoint, user) ==
    CASE endpoint = "admin_login" -> ~user.is_admin
      [] endpoint = "affiliate_login" -> user.is_admin
      [] endpoint = "referral_login" -> user.is_admin
      [] OTHER -> FALSE

WrongRoleDetail(endpoint) ==
    IF endpoint = "admin_login"
    THEN "Admin access required. Please use affiliate login endpoint."
    ELSE "Admin users should use admin login endpoint"

\* the failure log with time t appended for the identifier
Logged(log, identifier, t) ==
    [k \in DOMAIN log \cup {identifier} |->
        IF k = identifier THEN Append(Attempts(log, identifier), t) ELSE log[k]]

\* the failure log after a successful login of the identifier
Cleared(log, identifier) == [k \in DOMAIN log \ {identifier} |-> log[k]]

Max(a, b) == IF a >= b THEN a ELSE b

\* The failures of the log that lie in the window that trails time t
InWindow(log, t) ==
    [k \in DOMAIN log |->
        SelectSeq(log[k], LAMBDA x : x >= t - _LOCKOUT_WINDOW_SECONDS)]

\* The endpoint calling crud.authenticate_user before it checks the throttle
LoginStart_authenticate_first(endpoint, email) ==
    LET identifier == NormalizeEmail(email) IN
    /\ BagCardinality(in_flight) < NLogin
    /\ _login_attempts' = _prune_attempts(_login_attempts, identifier, now)
    /\ IF ~is_login_allowed(_login_attempts, identifier, now)
       THEN /\ response' = Submitted(
                                Reply(endpoint, identifier, 429,
                                      "Too many login attempts. Please try again later.",
                                      NoToken, TRUE, FindUser(users, identifier) # NoUser),
                                email)
            /\ UNCHANGED in_flight
       ELSE /\ in_flight' = in_flight (+) SetToBag({LoginRequest(endpoint, identifier)})
            /\ response' = NoResponse
    /\ peak_in_flight' = Max(peak_in_flight, BagCardinality(in_flight'))
    /\ UNCHANGED <<now, users, failure_log>>

\* The endpoint recording a failure for the request it answers with 429
LoginStart_count_throttled(endpoint, email) ==
    LET identifier == NormalizeEmail(email) IN
    /\ BagCardinality(in_flight) < NLogin
    /\ IF ~is_login_allowed(_login_attempts, identifier, now)
       THEN /\ _login_attempts' = register_login_failure(_login_attempts, identifier, now)
            /\ response' = Submitted(
                                Reply(endpoint, identifier, 429,
                                      "Too many login attempts. Please try again later.",
                                      NoToken, FALSE, FALSE),
                                email)
            /\ UNCHANGED in_flight
       ELSE /\ _login_attempts' = _prune_attempts(_login_attempts, identifier, now)
            /\ in_flight' = in_flight (+) SetToBag({LoginRequest(endpoint, identifier)})
            /\ response' = NoResponse
    /\ peak_in_flight' = Max(peak_in_flight, BagCardinality(in_flight'))
    /\ UNCHANGED <<now, users, failure_log>>

\* The endpoint up to its await: normalise the email, check the throttle, and
\* either answer 429 or call crud.authenticate_user.  The endpoint reads the
\* request's password only after the await, so the model draws it there.
LoginStart(endpoint, email) ==
    LET identifier == NormalizeEmail(email) IN
    /\ BagCardinality(in_flight) < NLogin
    /\ _login_attempts' = _prune_attempts(_login_attempts, identifier, now)
    /\ IF ~is_login_allowed(_login_attempts, identifier, now)
       THEN /\ response' = Submitted(
                                Reply(endpoint, identifier, 429,
                                      "Too many login attempts. Please try again later.",
                                      NoToken, FALSE, FALSE),
                                email)
            /\ UNCHANGED in_flight
       ELSE /\ in_flight' = in_flight (+) SetToBag({LoginRequest(endpoint, identifier)})
            /\ response' = NoResponse
    /\ peak_in_flight' = Max(peak_in_flight, BagCardinality(in_flight'))
    /\ UNCHANGED <<now, users, failure_log>>

\* The endpoint answering an unknown email with a detail of its own
LoginFinish_reveal_unknown_email(req, password, store_ok) ==
    /\ BagIn(req, in_flight)
    /\ LET endpoint == req.endpoint
           identifier == req.identifier
           user == authenticate_user(users, identifier, password, store_ok)
           hashed == store_ok /\ FindUser(users, identifier) # NoUser
       IN
       IF user = NoUser
       THEN /\ _login_attempts' = register_login_failure(_login_attempts, identifier, now)
            /\ failure_log' = Logged(failure_log, identifier, now)
            /\ response' = Reply(endpoint, identifier, 401,
                                 IF FindUser(users, identifier) = NoUser
                                 THEN "User not found"
                                 ELSE InvalidCredentialsDetail(endpoint),
                                 NoToken, TRUE, hashed)
       ELSE IF WrongRole(endpoint, user)
       THEN /\ _login_attempts' = register_login_failure(_login_attempts, identifier, now)
            /\ failure_log' = Logged(failure_log, identifier, now)
            /\ response' = Reply(endpoint, identifier, 403,
                                 WrongRoleDetail(endpoint), NoToken, TRUE, hashed)
       ELSE IF ~user.is_active
       THEN /\ response' = Reply(endpoint, identifier, 403, "Account is deactivated",
                                 NoToken, TRUE, hashed)
            /\ UNCHANGED <<_login_attempts, failure_log>>
       ELSE /\ _login_attempts' = register_login_success(_login_attempts, identifier)
            /\ failure_log' = Cleared(failure_log, identifier)
            /\ response' = AfterFailures(
                                Reply(endpoint, identifier, 200, "OK",
                                      create_access_token(user.email,
                                          ACCESS_TOKEN_EXPIRE_MINUTES * 60, now),
                                      TRUE, hashed),
                                Len(Attempts(failure_log, identifier)))
    /\ in_flight' = in_flight (-) SetToBag({req})
    /\ UNCHANGED <<now, users, peak_in_flight>>

\* The endpoint from the return of crud.authenticate_user to its response.
LoginFinish(req, password, store_ok) ==
    /\ BagIn(req, in_flight)
    /\ LET endpoint == req.endpoint
           identifier == req.identifier
           user == authenticate_user(users, identifier, password, store_ok)
           hashed == store_ok /\ FindUser(users, identifier) # NoUser
       IN
       IF user = NoUser
       THEN /\ _login_attempts' = register_login_failure(_login_attempts, identifier, now)
            /\ failure_log' = Logged(failure_log, identifier, now)
            /\ response' = Reply(endpoint, identifier, 401,
                                 InvalidCredentialsDetail(endpoint), NoToken, TRUE, hashed)
       ELSE IF WrongRole(endpoint, user)
       THEN /\ _login_attempts' = register_login_failure(_login_attempts, identifier, now)
            /\ failure_log' = Logged(failure_log, identifier, now)
            /\ response' = Reply(endpoint, identifier, 403,
                                 WrongRoleDetail(endpoint), NoToken, TRUE, hashed)
       ELSE IF ~user.is_active
       THEN /\ response' = Reply(endpoint, identifier, 403, "Account is deactivated",
                                 NoToken, TRUE, hashed)
            /\ UNCHANGED <<_login_attempts, failure_log>>
       ELSE /\ _login_attempts' = register_login_success(_login_attempts, identifier)
            /\ failure_log' = Cleared(failure_log, identifier)
            /\ response' = AfterFailures(
                                Reply(endpoint, identifier, 200, "OK",
                                      create_access_token(user.email,
                                          ACCESS_TOKEN_EXPIRE_MINUTES * 60, now),
                                      TRUE, hashed),
                                Len(Attempts(failure_log, identifier)))
    /\ in_flight' = in_flight (-) SetToBag({req})
    /\ UNCHANGED <<now, users, peak_in_flight>>

\* datetime.utcnow() advances by d seconds, up to limit
Tick(d, limit) ==
    /\ now + d <= limit
    /\ now' = now + d

----------------------------------------------------------------------------
(* Password reset: crud.request_password_reset, reset_password_with_token,   *)
(* resend_password_reset_email and the token functions of auth_utils           *)

NoRecord == [kind |-> "none"]

\* models.EmailVerificationToken
TokenRecord(email, token, expires_at) ==
    [kind |-> "token", email |-> email, token |-> token, token_type |-> "password_reset",
     expires_at |-> expires_at, is_used |-> FALSE, used_at |-> -1]

\* Document.insert() and Document.save(): the document is written under its key
Saved(collection, key, document) ==
    [k \in DOMAIN collection \cup {key} |-> IF k = key THEN document ELSE collection[k]]

\* the collection after create_password_reset_token(email) at time t, token being
\* the value generate_verification_token() returned
create_password_reset_token(collection, email, token, t) ==
    Saved(collection, token, TokenRecord(email, token, t + 24 * 3600))

\* verify_password_reset_token without the check of expires_at
verify_password_reset_token_no_expiry(collection, token, t) ==
    IF token \notin DOMAIN collection \/ collection[token].token_type # "password_reset"
    THEN NoRecord
    ELSE IF collection[token].is_used THEN NoRecord
    ELSE collection[token]

\* verify_password_reset_token without the check of is_used
verify_password_reset_token_no_used(collection, token, t) ==
    IF token \notin DOMAIN collection \/ collection[token].token_type # "password_reset"
    THEN NoRecord
    ELSE IF t > collection[token].expires_at THEN NoRecord
    ELSE collection[token]

\* the record verify_password_reset_token(token) returns at time t, NoRecord for None
verify_password_reset_token(collection, token, t) ==
    IF token \notin DOMAIN collection \/ collection[token].token_type # "password_reset"
    THEN NoRecord
    ELSE IF collection[token].is_used THEN NoRecord
    ELSE IF t > collection[token].expires_at THEN NoRecord
    ELSE collection[token]

\* the collection after mark_password_reset_token_as_used(token_record) at time t
mark_password_reset_token_as_used(collection, token_record, t) ==
    Saved(collection, token_record.token,
          [token_record EXCEPT !.is_used = TRUE, !.used_at = t])

\* the result of reset_password_with_token
ResetResult(outcome, token) == [kind |-> "result", outcome |-> outcome, token |-> token]

\* an HTTPException, or a JSON body with status 200
HTTPResponse(status, detail) == [kind |-> "http", status |-> status, detail |-> detail]

\* /reset-password telling a token that was never issued from the other rejections
reset_password_not_found(result) ==
    IF result.outcome = "invalid"
    THEN IF result.token = 0
         THEN HTTPResponse(404, "Reset token not found")
         ELSE HTTPResponse(400, "Invalid or expired reset token")
    ELSE HTTPResponse(200, "Password reset successfully")

\* the response of /reset-password to the result of crud.reset_password_with_token
reset_password(result) ==
    IF result.outcome = "invalid"
    THEN HTTPResponse(400, "Invalid or expired reset token")
    ELSE HTTPResponse(200, "Password reset successfully")

\* the number of successful resets through the token
ResetCount(token) == IF token \in DOMAIN reset_count THEN reset_count[token] ELSE 0

\* a call of reset_password_with_token suspended at an await
ResetCall(pc, token_record, user) ==
    [kind |-> "reset", pc |-> pc, token_record |-> token_record, user |-> user]

\* the bag with the call moved on to its next await
Moved(bag, call, next) == (bag (-) SetToBag({call})) (+) SetToBag({next})

\* reset_password_with_token up to the return of verify_password_reset_token.
\* The request's new_password is first read when the user has been found, so
\* the model draws it there.
ResetVerify(token) ==
    /\ BagCardinality(resetting) < NReset
    /\ LET token_record == verify_password_reset_token(tokens, token, now) IN
       IF token_record = NoRecord
       THEN /\ reset_result' = ResetResult("invalid", token)
            /\ UNCHANGED resetting
       ELSE /\ resetting' = resetting (+) SetToBag({ResetCall("find_user", token_record, NoUser)})
            /\ reset_result' = NoResponse
    /\ UNCHANGED <<now, users, tokens, next_token, reset_count, resend_pc>>

\* reset_password_with_token marking the token used when it finds no user
ResetFindUser_mark_on_missing(call, new_password, salt) ==
    /\ BagIn(call, resetting)
    /\ call.pc = "find_user"
    /\ LET user == FindUser(users, call.token_record.email) IN
       IF user = NoUser
       THEN /\ reset_result' = ResetResult("invalid", call.token_record.token)
            /\ resetting' = resetting (-) SetToBag({call})
            /\ tokens' = mark_password_reset_token_as_used(tokens, call.token_record, now)
       ELSE /\ resetting' = Moved(resetting, call,
                    ResetCall("save_user", call.token_record,
                        [user EXCEPT !.hashed_password = get_password_hash(new_password, salt)]))
            /\ reset_result' = NoResponse
            /\ UNCHANGED tokens
    /\ UNCHANGED <<now, users, next_token, reset_count, resend_pc>>

\* models.User.find_one(models.User.email == token_record.email), and
\* user.hashed_password = get_password_hash(new_password) with the salt drawn
ResetFindUser(call, new_password, salt) ==
    /\ BagIn(call, resetting)
    /\ call.pc = "find_user"
    /\ LET user == FindUser(users, call.token_record.email) IN
       IF user = NoUser
       THEN /\ reset_result' = ResetResult("invalid", call.token_record.token)
            /\ resetting' = resetting (-) SetToBag({call})
       ELSE /\ resetting' = Moved(resetting, call,
                    ResetCall("save_user", call.token_record,
                        [user EXCEPT !.hashed_password = get_password_hash(new_password, salt)]))
            /\ reset_result' = NoResponse
    /\ UNCHANGED <<now, users, tokens, next_token, reset_count, resend_pc>>

\* reset_password_with_token going on without writing the user
ResetSaveUser_without_save(call) ==
    /\ BagIn(call, resetting)
    /\ call.pc = "save_user"
    /\ users' = users
    /\ resetting' = Moved(resetting, call, ResetCall("mark_used", call.token_record, NoUser))
    /\ reset_result' = NoResponse
    /\ UNCHANGED <<now, tokens, next_token, reset_count, resend_pc>>

\* await user.save()
ResetSaveUser(call) ==
    /\ BagIn(call, resetting)
    /\ call.pc = "save_user"
    /\ users' = Saved(users, call.user.email, call.user)
    /\ resetting' = Moved(resetting, call, ResetCall("mark_used", call.token_record, NoUser))
    /\ reset_result' = NoResponse
    /\ UNCHANGED <<now, tokens, next_token, reset_count, resend_pc>>

\* await mark_password_reset_token_as_used(token_record), and the return
ResetMarkUsed(call) ==
    /\ BagIn(call, resetting)
    /\ call.pc = "mark_used"
    /\ LET token == call.token_record.token IN
       /\ tokens' = mark_password_reset_token_as_used(tokens, call.token_record, now)
       /\ reset_result' = ResetResult("reset", token)
       /\ reset_count' = Saved(reset_count, token, ResetCount(token) + 1)
    /\ resetting' = resetting (-) SetToBag({call})
    /\ UNCHANGED <<now, users, next_token, resend_pc>>

\* the dict request_password_reset and resend_password_reset_email return for an
\* account; NoRecord stands for the None they return without one
Requested(email) == [kind |-> "requested", email |-> email, token_created |-> TRUE]

\* schemas.PasswordResetResponse
PasswordResetResponse(message, email) ==
    [kind |-> "message", message |-> message, email |-> email, expires_in_hours |-> 24]

\* the response of /forgot-password to the result of crud.request_password_reset
forgot_password(result, email) ==
    IF result = NoRecord
    THEN PasswordResetResponse("If the email exists, a password reset link has been sent", email)
    ELSE PasswordResetResponse("Password reset email sent successfully", email)

\* the response of /resend-password-reset to the result of
\* crud.resend_password_reset_email
resend_password_reset(result, email) ==
    IF result = NoRecord
    THEN PasswordResetResponse("If the email exists, a new password reset link has been sent", email)
    ELSE PasswordResetResponse("Password reset email resent successfully", email)

\* /forgot-password: crud.request_password_reset(email) and the response
RequestPasswordReset(email) ==
    /\ next_token <= MaxTokens
    /\ IF FindUser(users, email) = NoUser
       THEN /\ reset_result' = forgot_password(NoRecord, email)
            /\ UNCHANGED <<tokens, next_token>>
       ELSE /\ tokens' = create_password_reset_token(tokens, email, next_token, now)
            /\ next_token' = next_token + 1
            /\ reset_result' = forgot_password(Requested(email), email)
    /\ UNCHANGED <<now, users, resetting, reset_count, resend_pc>>

\* resend_password_reset_email keeping the password_reset tokens of the email
ResendDelete_keep_tokens(email) ==
    /\ resend_pc = NoEmail
    /\ next_token <= MaxTokens
    /\ IF FindUser(users, email) = NoUser
       THEN /\ reset_result' = resend_password_reset(NoRecord, email)
            /\ UNCHANGED <<tokens, resend_pc>>
       ELSE /\ tokens' = tokens
            /\ resend_pc' = email
            /\ reset_result' = NoResponse
    /\ UNCHANGED <<now, users, next_token, resetting, reset_count>>

\* /resend-password-reset: crud.resend_password_reset_email(email) up to the await
\* of the delete, where the password_reset tokens of the email are removed; for
\* an email without account, the whole request
ResendDelete(email) ==
    /\ resend_pc = NoEmail
    /\ next_token <= MaxTokens
    /\ IF FindUser(users, email) = NoUser
       THEN /\ reset_result' = resend_password_reset(NoRecord, email)
            /\ UNCHANGED <<tokens, resend_pc>>
       ELSE /\ tokens' = [k \in { k \in DOMAIN tokens :
                                   ~(tokens[k].email = email /\ tokens[k].token_type = "password_reset") }
                           |-> tokens[k]]
            /\ resend_pc' = email
            /\ reset_result' = NoResponse
    /\ UNCHANGED <<now, users, next_token, resetting, reset_count>>

\* crud.resend_password_reset_email from the await of the delete: the new token,
\* and the response of /resend-password-reset
ResendCreate ==
    /\ resend_pc # NoEmail
    /\ tokens' = create_password_reset_token(tokens, resend_pc, next_token, now)
    /\ next_token' = next_token + 1
    /\ reset_result' = resend_password_reset(Requested(resend_pc), resend_pc)
    /\ resend_pc' = NoEmail
    /\ UNCHANGED <<now, users, resetting, reset_count>>

\* crud.delete_affiliate_profile: the user account of an affiliate is deleted
DeleteAffiliate(email) ==
    /\ FindUser(users, email) # NoUser
    /\ ~users[email].is_admin
    /\ users' = [users EXCEPT ![email] = NoUser]
    /\ UNCHANGED now

----------------------------------------------------------------------------
(* Bearer-token gate: auth_utils.get_current_user *)

\* a token signed with another key
ForgedToken(sub, exp) ==
    [kind |-> "jwt", sub |-> sub, exp |-> exp, key |-> "OTHER_KEY", user_type |-> NoClaim]

\* a token whose payload carries the user_type claim
WithUserType(token, user_type) == [token EXCEPT !.user_type = user_type]

\* jwt.decode that verifies the signature and not the exp claim
JWTError_signature_only(token, t) == token.key # "SECRET_KEY"

\* jwt.decode(token, SECRET_KEY): TRUE when it raises JWTError, for a signature
\* of another key or an exp that lies before t
JWTError(token, t) == token.key # "SECRET_KEY" \/ token.exp < t

\* an outcome of get_current_user: the status, the detail and the user it returns,
\* with the token presented and whether the account store answered
Outcome(token, store_ok, status, detail, user) ==
    [kind |-> "outcome", token |-> token, store_ok |-> store_ok,
     status |-> status, detail |-> detail, user |-> user]

\* get_current_user(token) at time t.  The credentials_exception raised for a
\* missing user is raised inside the try whose `except Exception` turns every
\* exception into the 503.
get_current_user(store, token, t, store_ok) ==
    IF token = NoToken
    THEN Outcome(token, store_ok, 401, "Could not validate credentials", NoUser)
    ELSE IF JWTError(token, t)
    THEN Outcome(token, store_ok, 401, "Could not validate credentials", NoUser)
    ELSE IF token.sub = NoEmail
    THEN Outcome(token, store_ok, 401, "Could not validate credentials", NoUser)
    ELSE IF ~store_ok
    THEN Outcome(token, store_ok, 503, "Database service unavailable", NoUser)
    ELSE IF FindUser(store, token.sub) = NoUser
    THEN Outcome(token, store_ok, 503, "Database service unavailable", NoUser)
    ELSE Outcome(token, store_ok, 200, "OK", FindUser(store, token.sub))

\* get_admin_user answering a non-admin account with the credentials_exception
get_admin_user_unauthenticated(store, token, t, store_ok) ==
    LET outcome == get_current_user(store, token, t, store_ok) IN
    IF outcome.status # 200 THEN outcome
    ELSE IF ~outcome.user.is_admin
    THEN Outcome(token, store_ok, 401, "Could not validate credentials", NoUser)
    ELSE outcome

\* auth_utils.get_admin_user: the exception of get_current_user propagates; a
\* user who is not an admin is answered 403
get_admin_user(store, token, t, store_ok) ==
    LET current_user == get_current_user(store, token, t, store_ok) IN
    IF current_user.status # 200 THEN current_user
    ELSE IF ~current_user.user.is_admin
    THEN Outcome(token, store_ok, 403, "Not enough permissions", NoUser)
    ELSE current_user

\* routers/admin.get_current_admin with the credentials HTTPBearer extracted
get_current_admin(store, token, t, store_ok) ==
    LET current_user == get_current_user(store, token, t, store_ok) IN
    IF current_user.status # 200 THEN current_user
    ELSE IF ~current_user.user.is_admin
    THEN Outcome(token, store_ok, 403, "Not enough permissions", NoUser)
    ELSE current_user

\* the outcome of an admin gate
AdminOutcome(outcome) == [outcome EXCEPT !.kind = "admin_outcome"]

\* models.Referral.find_one(models.Referral.email == email), in a referrals
\* collection given by the emails of its documents
FindReferral(referrals, email) ==
    IF email \in referrals THEN [kind |-> "referral", email |-> email] ELSE NoUser

\* get_current_referral admitting a token of any user_type
get_current_referral_any_type(referrals, token, t, store_ok) ==
    IF token = NoToken \/ JWTError(token, t) \/ token.sub = NoEmail
    THEN Outcome(token, store_ok, 401, "Could not validate credentials", NoUser)
    ELSE IF ~store_ok \/ FindReferral(referrals, token.sub) = NoUser
    THEN Outcome(token, store_ok, 503, "Database service unavailable", NoUser)
    ELSE Outcome(token, store_ok, 200, "OK", FindReferral(referrals, token.sub))

\* get_current_referral(token) at time t.  The credentials_exception for a
\* payload without sub or without user_type = "referral" passes the
\* `except JWTError`; the one for a missing referral is raised inside the try
\* whose `except Exception` turns it into the 503.
get_current_referral(referrals, token, t, store_ok) ==
    IF token = NoToken
    THEN Outcome(token, store_ok, 401, "Could not validate credentials", NoUser)
    ELSE IF JWTError(token, t)
    THEN Outcome(token, store_ok, 401, "Could not validate credentials", NoUser)
    ELSE IF token.sub = NoEmail \/ token.user_type # "referral"
    THEN Outcome(token, store_ok, 401, "Could not validate credentials", NoUser)
    ELSE IF ~store_ok
    THEN Outcome(token, store_ok, 503, "Database service unavailable", NoUser)
    ELSE IF FindReferral(referrals, token.sub) = NoUser
    THEN Outcome(token, store_ok, 503, "Database service unavailable", NoUser)
    ELSE Outcome(token, store_ok, 200, "OK", FindReferral(referrals, token.sub))

\* the outcome of the referral gate
ReferralOutcome(outcome) == [outcome EXCEPT !.kind = "referral_outcome"]

\* the end of a successful login: the account exists, is active and its
\* password verified, and the endpoint signs a token for its email
IssueToken(email) ==
    /\ Cardinality(issued) < MaxIssued
    /\ FindUser(users, email) # NoUser
    /\ users[email].is_active
    /\ issued' = issued \cup {create_access_token(users[email].email,
                                  ACCESS_TOKEN_EXPIRE_MINUTES * 60, now)}
    /\ gate_result' = NoResponse
    /\ UNCHANGED <<now, users>>

\* a request passes through get_current_user with the token of its header
GetCurrentUser(token, store_ok) ==
    /\ gate_result' = get_current_user(users, token, now, store_ok)
    /\ UNCHANGED <<now, users, issued>>

\* a request to an endpoint that depends on auth_utils.get_admin_user
GetAdminUser(token, store_ok) ==
    /\ gate_result' = AdminOutcome(get_admin_user(users, token, now, store_ok))
    /\ UNCHANGED <<now, users, issued>>

\* a request to an endpoint that depends on routers/admin.get_current_admin;
\* HTTPBearer hands over the credentials of the Authorization header, so the
\* dependency runs for requests that carry a token
GetCurrentAdmin(token, store_ok) ==
    /\ token # NoToken
    /\ gate_result' = AdminOutcome(get_current_admin(users, token, now, store_ok))
    /\ UNCHANGED <<now, users, issued>>

\* a request to an endpoint that depends on routers/referral.get_current_referral_user,
\* with the credentials HTTPBearer extracted and the referrals collection as
\* it is at the time of the request
GetCurrentReferralUser(token, referrals, store_ok) ==
    /\ token # NoToken
    /\ gate_result' = ReferralOutcome(get_current_referral(referrals, token, now, store_ok))
    /\ UNCHANGED <<now, users, issued>>

----------------------------------------------------------------------------
(* Review of affiliate requests: crud.approve_affiliate_request and          *)
(* crud.reject_affiliate_request, called by routers/admin.review_affiliate_request. *)
(* The collections take every insert: the unique=True of the pydantic Field   *)
(* of models.py declares no index (no Indexed type, no Settings.indexes).     *)

\* the ids of the affiliate requests submitted; each request has an email of its own
RequestIds == 1..MaxRequests

\* the strings generate_unique_affiliate_link() can return
Links == {"k1", "k2"}

NoLink == "none"

\* a call suspended at an await: its operation, the await, the request it
\* loaded, the id of the User it inserted, the turn of the retry loop and the
\* candidate (after the loop: the unique_link)
ReviewCall(op, pc, request_id, user_id, tries, candidate) ==
    [op |-> op, pc |-> pc, request_id |-> request_id, user_id |-> user_id,
     tries |-> tries, candidate |-> candidate]

\* models.Affiliate(user_id, name, ..., unique_link); request_id stands for the
\* name, location and language copied from the request
Affiliate(user_id, unique_link, request_id) ==
    [user_id |-> user_id, unique_link |-> unique_link, request_id |-> request_id]

\* what review_affiliate_request answers: 200 with the status, or the 404
\* "Request not found or already processed" for the None of the crud call
ReviewResult(op, request_id, status, outcome) ==
    [kind |-> "review", op |-> op, request_id |-> request_id,
     status |-> status, outcome |-> outcome]

\* models.Affiliate.find_one(models.Affiliate.unique_link == candidate)
FindAffiliateByLink(collection, candidate) ==
    \E i \in DOMAIN collection : collection[i].unique_link = candidate

\* approve_affiliate_request up to user.insert(): load the request, return
\* None unless it is pending
ApproveGet(request_id) ==
    /\ BagCardinality(reviewing) < NReview
    /\ IF affiliate_requests[request_id] # "pending"
       THEN /\ review_result' = ReviewResult("approve", request_id, 404, "none")
            /\ UNCHANGED reviewing
       ELSE /\ reviewing' = reviewing (+) SetToBag(
                    {ReviewCall("approve", "insert_user", request_id, 0, 0, NoLink)})
            /\ review_result' = NoResponse
    /\ UNCHANGED <<affiliate_requests, new_users, affiliates, reviewed>>

\* await user.insert(), then the first candidate of the retry loop
ApproveInsertUser(call, candidate) ==
    /\ BagIn(call, reviewing)
    /\ call.pc = "insert_user"
    /\ new_users' = Append(new_users, call.request_id)
    /\ reviewing' = Moved(reviewing, call,
            ReviewCall("approve", "find_link", call.request_id,
                       Len(new_users) + 1, 1, candidate))
    /\ review_result' = NoResponse
    /\ UNCHANGED <<affiliate_requests, affiliates, reviewed>>

\* existing = await find_one(unique_link == candidate): a free candidate is
\* taken; a held one is replaced by a new candidate, which after max_attempts
\* turns is the fallback that is not looked up
ApproveFindLink(call, candidate) ==
    /\ BagIn(call, reviewing)
    /\ call.pc = "find_link"
    /\ reviewing' = Moved(reviewing, call,
            IF ~FindAffiliateByLink(affiliates, call.candidate)
            THEN [call EXCEPT !.pc = "insert_affiliate"]
            ELSE IF call.tries < max_attempts
            THEN [call EXCEPT !.tries = @ + 1, !.candidate = candidate]
            ELSE [call EXCEPT !.pc = "insert_affiliate", !.candidate = candidate])
    /\ review_result' = NoResponse
    /\ UNCHANGED <<affiliate_requests, new_users, affiliates, reviewed>>

\* await affiliate.insert()
ApproveInsertAffiliate(call) ==
    /\ BagIn(call, reviewing)
    /\ call.pc = "insert_affiliate"
    /\ affiliates' = Append(affiliates,
                            Affiliate(call.user_id, call.candidate, call.request_id))
    /\ reviewing' = Moved(reviewing, call, [call EXCEPT !.pc = "save_request"])
    /\ review_result' = NoResponse
    /\ UNCHANGED <<affiliate_requests, new_users, reviewed>>

\* request.status = APPROVED; await request.save(), which writes the document
\* back, a deleted one included; the welcome email; return affiliate
ApproveSaveRequest(call) ==
    /\ BagIn(call, reviewing)
    /\ call.pc = "save_request"
    /\ affiliate_requests' = [affiliate_requests EXCEPT ![call.request_id] = "approved"]
    /\ reviewing' = reviewing (-) SetToBag({call})
    /\ review_result' = ReviewResult("approve", call.request_id, 200, "approved")
    /\ reviewed' = [reviewed EXCEPT ![call.request_id] = @ + 1]
    /\ UNCHANGED <<new_users, affiliates>>

\* reject_affiliate_request up to request.delete(): load the request, return
\* None unless it is pending
RejectGet(request_id) ==
    /\ BagCardinality(reviewing) < NReview
    /\ IF affiliate_requests[request_id] # "pending"
       THEN /\ review_result' = ReviewResult("reject", request_id, 404, "none")
            /\ UNCHANGED reviewing
       ELSE /\ reviewing' = reviewing (+) SetToBag(
                    {ReviewCall("reject", "delete", request_id, 0, 0, NoLink)})
            /\ review_result' = NoResponse
    /\ UNCHANGED <<affiliate_requests, new_users, affiliates, reviewed>>

\* await request.delete(); return request_info
RejectDelete(call) ==
    /\ BagIn(call, reviewing)
    /\ call.pc = "delete"
    /\ affiliate_requests' = [affiliate_requests EXCEPT ![call.request_id] = "absent"]
    /\ reviewing' = reviewing (-) SetToBag({call})
    /\ review_result' = ReviewResult("reject", call.request_id, 200, "rejected")
    /\ reviewed' = [reviewed EXCEPT ![call.request_id] = @ + 1]
    /\ UNCHANGED <<new_users, affiliates>>

----------------------------------------------------------------------------
(* Initial state: the process has started; the store holds the accounts *)

Accounts(email) ==
    {NoUser} \cup
    { User(email, get_password_hash(InitialPassword, InitialSalt), is_admin, is_active) :
        is_admin \in BOOLEAN, is_active \in BOOLEAN }

\* the state of a process that has started, the hasher aside
Started ==
    /\ now = 0
    /\ users \in { f \in [Emails -> UNION {Accounts(e) : e \in Emails}] :
                     \A e \in Emails : f[e] \in Accounts(e) }
    /\ _login_attempts = << >>
    /\ in_flight = EmptyBag
    /\ response = NoResponse
    /\ failure_log = << >>
    /\ peak_in_flight = 0
    /\ tokens = << >>
    /\ next_token = 1
    /\ resetting = EmptyBag
    /\ reset_result = NoResponse
    /\ reset_count = << >>
    /\ resend_pc = NoEmail
    /\ issued = {}
    /\ gate_result = NoResponse
    /\ affiliate_requests = [request_id \in RequestIds |-> "pending"]
    /\ new_users = << >>
    /\ affiliates = << >>
    /\ reviewing = EmptyBag
    /\ review_result = NoResponse
    /\ reviewed = [request_id \in RequestIds |-> 0]

Init == Started /\ hasher = NoCall

----------------------------------------------------------------------------
(* The login specification: concurrent login requests and the clock *)

\* the clock of the login specification moves by a whole window
LoginTick ==
    /\ Tick(_LOCKOUT_WINDOW_SECONDS, MaxTicks * _LOCKOUT_WINDOW_SECONDS)
    /\ failure_log' = InWindow(failure_log, now')
    /\ response' = NoResponse
    /\ UNCHANGED <<users, _login_attempts, in_flight, peak_in_flight>>

LoginNext ==
    \/ \E endpoint \in Endpoints, email \in RawEmails :
            LoginStart(endpoint, email) /\ UNCHANGED <<reset_vars, gate_vars, hasher_vars, review_vars>>
    \/ \E req \in BagToSet(in_flight), password \in Passwords, store_ok \in BOOLEAN :
            LoginFinish(req, password, store_ok) /\ UNCHANGED <<reset_vars, gate_vars, hasher_vars, review_vars>>
    \/ LoginTick /\ UNCHANGED <<reset_vars, gate_vars, hasher_vars, review_vars>>

LoginSpec == Init /\ [][LoginNext]_vars

----------------------------------------------------------------------------
(* The reset specification: concurrent password resets, account deletion and *)
(* the clock, which moves by the life of a token                             *)

ResetTick ==
    /\ Tick(24 * 3600, MaxSteps * 24 * 3600)
    /\ reset_result' = NoResponse
    /\ UNCHANGED <<users, tokens, next_token, resetting, reset_count, resend_pc>>

\* the steps that follow the first await of reset_password_with_token
ResetResume ==
    \/ \E call \in BagToSet(resetting), new_password \in Passwords, salt \in FreshSalts :
            ResetFindUser(call, new_password, salt) /\ UNCHANGED <<login_vars, gate_vars, hasher_vars, review_vars>>
    \/ \E call \in BagToSet(resetting) :
            ResetSaveUser(call) /\ UNCHANGED <<login_vars, gate_vars, hasher_vars, review_vars>>
    \/ \E call \in BagToSet(resetting) :
            ResetMarkUsed(call) /\ UNCHANGED <<login_vars, gate_vars, hasher_vars, review_vars>>

\* the other operations on the tokens and the accounts, and the clock
ResetEnvironment ==
    \/ \E email \in RawEmails :
            RequestPasswordReset(email) /\ UNCHANGED <<login_vars, gate_vars, hasher_vars, review_vars>>
    \/ \E email \in RawEmails : ResendDelete(email) /\ UNCHANGED <<login_vars, gate_vars, hasher_vars, review_vars>>
    \/ ResendCreate /\ UNCHANGED <<login_vars, gate_vars, hasher_vars, review_vars>>
    \/ \E email \in Emails :
            /\ DeleteAffiliate(email)
            /\ reset_result' = NoResponse
            /\ UNCHANGED <<tokens, next_token, resetting, reset_count, resend_pc>>
            /\ UNCHANGED <<login_vars, gate_vars, hasher_vars, review_vars>>
    \/ ResetTick /\ UNCHANGED <<login_vars, gate_vars, hasher_vars, review_vars>>

ResetNext ==
    \/ \E token \in 0..(next_token - 1) :
            ResetVerify(token) /\ UNCHANGED <<login_vars, gate_vars, hasher_vars, review_vars>>
    \/ ResetResume
    \/ ResetEnvironment

\* the accounts of the reset specification are active: no reset operation reads is_active
ResetInit == Init /\ \A e \in Emails : users[e] # NoUser => users[e].is_active

ResetSpec == ResetInit /\ [][ResetNext]_vars

----------------------------------------------------------------------------
(* The serial reset specification: the calls of reset_password_with_token do *)
(* not overlap; a call starts when no other call is suspended                 *)

SerialResetNext ==
    \/ \E token \in 0..(next_token - 1) :
            /\ resetting = EmptyBag
            /\ ResetVerify(token)
            /\ UNCHANGED <<login_vars, gate_vars, hasher_vars, review_vars>>
    \/ ResetResume
    \/ ResetEnvironment

SerialResetSpec == ResetInit /\ [][SerialResetNext]_vars

----------------------------------------------------------------------------
(* The gate specification: tokens are signed, presented to get_current_user *)
(* and outlive their accounts; the clock moves by the life of a token         *)

\* a string that is no JWT
MalformedToken ==
    [kind |-> "malformed", sub |-> NoEmail, exp |-> 0, key |-> "NO_KEY", user_type |-> NoClaim]

\* the tokens a client can present: none, the signed ones, one without a
\* subject, a malformed one and forged ones
Presented ==
    {NoToken, MalformedToken} \cup issued
    \cup {create_access_token(NoEmail, ACCESS_TOKEN_EXPIRE_MINUTES * 60, 0)}
    \cup {ForgedToken(email, MaxSteps * ACCESS_TOKEN_EXPIRE_MINUTES * 60) : email \in Emails}

\* the tokens a client can present to the referral gate: those, and forged
\* ones whose payload says user_type = "referral"
ReferralPresented ==
    Presented \cup { WithUserType(ForgedToken(email,
                                     MaxSteps * ACCESS_TOKEN_EXPIRE_MINUTES * 60),
                                   "referral") : email \in Emails }

GateTick ==
    /\ Tick(ACCESS_TOKEN_EXPIRE_MINUTES * 60, MaxSteps * ACCESS_TOKEN_EXPIRE_MINUTES * 60)
    /\ gate_result' = NoResponse
    /\ UNCHANGED <<users, issued>>

GateNext ==
    \/ \E email \in Emails : IssueToken(email) /\ UNCHANGED <<login_vars, reset_vars, hasher_vars, review_vars>>
    \/ \E token \in Presented, store_ok \in BOOLEAN :
            GetCurrentUser(token, store_ok) /\ UNCHANGED <<login_vars, reset_vars, hasher_vars, review_vars>>
    \/ \E token \in Presented, store_ok \in BOOLEAN :
            GetAdminUser(token, store_ok) /\ UNCHANGED <<login_vars, reset_vars, hasher_vars, review_vars>>
    \/ \E token \in Presented, store_ok \in BOOLEAN :
            GetCurrentAdmin(token, store_ok) /\ UNCHANGED <<login_vars, reset_vars, hasher_vars, review_vars>>
    \/ \E token \in ReferralPresented, referrals \in SUBSET Emails, store_ok \in BOOLEAN :
            GetCurrentReferralUser(token, referrals, store_ok)
                /\ UNCHANGED <<login_vars, reset_vars, hasher_vars, review_vars>>
    \/ \E email \in Emails :
            /\ DeleteAffiliate(email)
            /\ gate_result' = NoResponse
            /\ UNCHANGED issued
            /\ UNCHANGED <<login_vars, reset_vars, hasher_vars, review_vars>>
    \/ GateTick /\ UNCHANGED <<login_vars, reset_vars, hasher_vars, review_vars>>

GateSpec == Init /\ [][GateNext]_vars

----------------------------------------------------------------------------
(* Properties of the login throttle and the login endpoints (LoginSpec) *)

Identifiers == { NormalizeEmail(email) : email \in RawEmails }

\* the stored attempts of the identifier that lie in the window trailing now
Pruned(identifier) ==
    PopStale(Attempts(_login_attempts, identifier), now - _LOCKOUT_WINDOW_SECONDS)

\* the number of suspended login requests of the identifier
InFlight(identifier) ==
    LET reqs == { req \in BagToSet(in_flight) : req.identifier = identifier } IN
    BagCardinality([req \in reqs |-> in_flight[req]])

Throttled(reply) == reply.kind = "response" /\ reply.status = 429

\* the identifier is throttled: its window holds _MAX_ATTEMPTS entries or more
IsThrottled(identifier) == Len(Pruned(identifier)) >= _MAX_ATTEMPTS

\* C5: once _MAX_ATTEMPTS logins of an identifier have been rejected inside the
\* window with no success between them, the next login request for it is answered
\* 429 before its password is looked at: no token, and never invalid credentials.
C5_LockoutAfterTenFailures ==
    [][\A email \in RawEmails :
        Len(Attempts(failure_log, NormalizeEmail(email))) >= _MAX_ATTEMPTS
        => \A endpoint \in Endpoints :
              LoginStart(endpoint, email)
              => ( /\ Throttled(response')
                   /\ response'.token = NoToken
                   /\ in_flight' = in_flight )]_vars

\* C5 witness: an active account is locked out, so that its correct password
\* would have logged it in
C5_Witness ==
    /\ Throttled(response)
    /\ Len(Attempts(failure_log, response.identifier)) >= _MAX_ATTEMPTS
    /\ \E e \in Emails : /\ e = response.identifier
                         /\ users[e] # NoUser
                         /\ users[e].is_active

\* C6 as stated: under every interleaving of login requests the pruned list of
\* an identifier holds at most _MAX_ATTEMPTS entries.
C6_AtMostMaxAttempts ==
    \A identifier \in Identifiers : Len(Pruned(identifier)) <= _MAX_ATTEMPTS

\* C6 amended: the pruned list of an identifier, plus its requests now in
\* flight, holds at most _MAX_ATTEMPTS - 1 + k entries, k being the largest number
\* of login requests that were in flight at once; so at most _MAX_ATTEMPTS when
\* login requests do not overlap.
C6_AtMostMaxAttemptsPlusOverlap ==
    \A identifier \in Identifiers :
        Len(Pruned(identifier)) + InFlight(identifier)
            <= _MAX_ATTEMPTS - 1 + Max(peak_in_flight, 1)

\* C6 witness: login requests never overlapped and the list is full
C6_Witness ==
    /\ peak_in_flight = 1
    /\ \E identifier \in Identifiers : Len(Pruned(identifier)) = _MAX_ATTEMPTS

\* C7: a login request for an identifier that is throttled is answered 429 in
\* the step that checks the throttle: the account store is not queried, no
\* password is hashed and no call of authenticate_user is left in flight.
C7_ThrottleBeforeLookup ==
    [][\A email \in RawEmails :
        IsThrottled(NormalizeEmail(email))
        => \A endpoint \in Endpoints :
              LoginStart(endpoint, email)
              => ( /\ Throttled(response')
                   /\ response'.endpoint = endpoint
                   /\ ~response'.store_queried
                   /\ ~response'.password_hashed
                   /\ in_flight' = in_flight )]_vars

\* C7 witness: the admin endpoint answered 429 to a throttled identifier
C7_Witness == Throttled(response) /\ response.endpoint = "admin_login"

\* C8: is_login_allowed is true exactly when fewer than _MAX_ATTEMPTS of the
\* failures of the identifier lie in the trailing window.
C8_AllowedIffFewerThanMax ==
    \A identifier \in Identifiers :
        is_login_allowed(_login_attempts, identifier, now)
            <=> Len(Attempts(failure_log, identifier)) < _MAX_ATTEMPTS

\* C8 witness: a locked-out identifier is allowed again with no success
\* recorded: its _MAX_ATTEMPTS stored failures have all aged out of the window
C8_Witness ==
    \E identifier \in Identifiers :
        /\ Len(Attempts(_login_attempts, identifier)) >= _MAX_ATTEMPTS
        /\ is_login_allowed(_login_attempts, identifier, now)

\* C9: right after a successful login of an identifier no failure is recorded
\* for it and is_login_allowed is true.
C9_SuccessClearsFailures ==
    (response.kind = "response" /\ response.status = 200)
    => ( /\ Len(Attempts(_login_attempts, response.identifier)) = 0
         /\ is_login_allowed(_login_attempts, response.identifier, now) )

\* C9 witness: a login succeeded while its identifier was locked out
C9_Witness ==
    /\ response.kind = "response"
    /\ response.status = 200
    /\ response.prior_failures >= _MAX_ATTEMPTS

----------------------------------------------------------------------------
(* Properties of the password-reset tokens (ResetSpec, SerialResetSpec) *)

\* the password_reset tokens of the email that are stored, unused and unexpired
LiveTokens(email) ==
    { token \in DOMAIN tokens :
        /\ tokens[token].email = email
        /\ tokens[token].token_type = "password_reset"
        /\ ~tokens[token].is_used
        /\ now <= tokens[token].expires_at }

Invalid(token) == ResetResult("invalid", token)

\* C1 as stated: under every interleaving of reset_password_with_token calls
\* that carry the same token, at most one call succeeds and changes the password.
C1_AtMostOnceUnderInterleaving ==
    \A token \in DOMAIN reset_count : reset_count[token] <= 1

\* C2: when the calls of reset_password_with_token do not overlap, no token
\* resets a password twice, and once a call with a token has succeeded every later
\* call with it returns the invalid outcome and leaves the accounts, the tokens
\* and the calls in flight as they were.
C2_SerialResetAtMostOnce ==
    [][\A token \in 0..(next_token - 1) :
        /\ token \in DOMAIN reset_count' => reset_count'[token] <= 1
        /\ (ResetCount(token) >= 1 /\ ResetVerify(token))
           => ( /\ reset_result' = Invalid(token)
                /\ users' = users
                /\ tokens' = tokens
                /\ resetting' = resetting )]_vars

\* C2 witness: a call with a token that has reset a password, is still stored
\* and has not expired was answered invalid
C2_Witness ==
    \E token \in DOMAIN tokens :
        /\ reset_result = Invalid(token)
        /\ ResetCount(token) = 1
        /\ tokens[token].is_used
        /\ now <= tokens[token].expires_at

\* C4: a stored token whose expires_at lies before now is rejected by
\* verify_password_reset_token whatever its is_used flag, and a call of
\* reset_password_with_token with it returns the invalid outcome and changes no
\* account and no token.
C4_ExpiredTokenRejected ==
    [][\A token \in DOMAIN tokens :
        now > tokens[token].expires_at
        => /\ \A is_used \in BOOLEAN :
                verify_password_reset_token(
                    Saved(tokens, token, [tokens[token] EXCEPT !.is_used = is_used]),
                    token, now) = NoRecord
           /\ ResetVerify(token)
              => ( /\ reset_result' = Invalid(token)
                   /\ users' = users
                   /\ tokens' = tokens
                   /\ resetting' = resetting )]_vars

\* C4 witness: a call with a token that expired without ever being consumed
\* was answered invalid
C4_Witness ==
    \E token \in DOMAIN tokens :
        /\ reset_result = Invalid(token)
        /\ ~tokens[token].is_used
        /\ ResetCount(token) = 0
        /\ now > tokens[token].expires_at

\* C10 as stated: each email has at most one password_reset token that is
\* unused and unexpired, and that token is the newest one stored for the email.
C10_OnlyNewestTokenLive ==
    \A email \in Emails :
        /\ Cardinality(LiveTokens(email)) <= 1
        /\ \A token \in LiveTokens(email), other \in DOMAIN tokens :
                tokens[other].email = email => other <= token

----------------------------------------------------------------------------
(* Properties of the bearer-token gate (GateSpec) *)

\* C3 as stated: a token that is validly signed and unexpired, whose subject
\* has no account any more, ends in the 401 "Could not validate credentials"
\* while the account store answers, and never resolves to an account.
C3_DeletedAccountIsUnauthenticated ==
    ( /\ gate_result.kind = "outcome"
      /\ gate_result.token \in issued
      /\ ~JWTError(gate_result.token, now)
      /\ gate_result.store_ok
      /\ FindUser(users, gate_result.token.sub) = NoUser )
    => ( /\ gate_result.status = 401
         /\ gate_result.detail = "Could not validate credentials"
         /\ gate_result.user = NoUser )

\* C11: resend_password_reset_email for an account leaves none of the tokens
\* of its email acceptable to verify_password_reset_token when its delete has run,
\* a token that is rejected is never accepted again, and the token the resend
\* creates is accepted and belongs to the email; so when the resend has completed
\* every token created before it is rejected and the new one is accepted.
C11_ResendSupersedesOlderTokens ==
    [][ /\ \A email \in RawEmails :
              (FindUser(users, email) # NoUser /\ ResendDelete(email))
              => \A token \in DOMAIN tokens :
                    tokens[token].email = email
                    => verify_password_reset_token(tokens', token, now') = NoRecord
        /\ \A token \in 0..(next_token - 1) :
              verify_password_reset_token(tokens, token, now) = NoRecord
              => verify_password_reset_token(tokens', token, now') = NoRecord
        /\ ResendCreate
              => /\ verify_password_reset_token(tokens', next_token, now') # NoRecord
                 /\ tokens'[next_token].email = resend_pc ]_vars

\* C11 witness: after a resend has completed, a call with an older token that
\* was neither used nor expired was answered invalid while the new token is live
C11_Witness ==
    \E token \in 1..(next_token - 1) :
        /\ reset_result = Invalid(token)
        /\ token \notin DOMAIN tokens
        /\ ResetCount(token) = 0
        /\ resend_pc = NoEmail
        /\ \E email \in Emails : next_token - 1 \in LiveTokens(email)

\* C12: a signed token whose account exists is accepted by get_current_user,
\* resolving to that account, at every time up to its exp and is rejected with
\* 401 at every time after it, whatever the password hash and the is_active flag
\* the account holds by then; the outcomes get_current_user produced agree.
C12_ValidUntilExpiry ==
    \A token \in issued :
        FindUser(users, token.sub) # NoUser
        => /\ \A password \in Passwords, salt \in Salts, is_active \in BOOLEAN :
                LET user == [users[token.sub] EXCEPT
                                !.hashed_password = get_password_hash(password, salt),
                                !.is_active = is_active]
                    outcome == get_current_user(Saved(users, token.sub, user), token, now, TRUE)
                IN  /\ now <= token.exp => (outcome.status = 200 /\ outcome.user = user)
                    /\ now > token.exp => outcome.status = 401
           /\ (gate_result.kind = "outcome" /\ gate_result.token = token /\ gate_result.store_ok)
              => /\ now <= token.exp
                    => (gate_result.status = 200 /\ gate_result.user = users[token.sub])
                 /\ now > token.exp => gate_result.status = 401

\* C12 witness: get_current_user rejected a signed token of an existing account
\* after its exp
C12_Witness ==
    /\ gate_result.kind = "outcome"
    /\ gate_result.token \in issued
    /\ gate_result.store_ok
    /\ FindUser(users, gate_result.token.sub) # NoUser
    /\ now > gate_result.token.exp
    /\ gate_result.status = 401

\* the token is missing, malformed, forged, expired or without a subject
Unauthenticated(token, t) ==
    token = NoToken \/ JWTError(token, t) \/ token.sub = NoEmail

\* the token is valid and its subject is an existing account that is no admin
ValidNonAdmin(token, t) ==
    /\ ~Unauthenticated(token, t)
    /\ FindUser(users, token.sub) # NoUser
    /\ ~users[token.sub].is_admin

\* the answer of an admin gate keeps the two rejections apart
Apart(token, store_ok, outcome) ==
    /\ Unauthenticated(token, now) => outcome.status = 401
    /\ ValidNonAdmin(token, now) => outcome.status # 401
    /\ (ValidNonAdmin(token, now) /\ store_ok) => outcome.status = 403

----------------------------------------------------------------------------
(* Properties of the login endpoints (LoginSpec) *)

\* the lookup of the request raised: the store was queried and holds the account
\* of the identifier, yet no password was verified
StoreFailed(reply) ==
    /\ reply.kind = "response"
    /\ reply.store_queried
    /\ ~reply.password_hashed
    /\ FindUser(users, reply.identifier) # NoUser

\* C14 as stated: a login during which the account store raised is answered
\* with a service-unavailable status, and not with the 401 of invalid credentials.
C14_OutageIsServiceUnavailable ==
    StoreFailed(response) => (response.status = 503 /\ response.status # 401)

----------------------------------------------------------------------------
(* Properties of the password reset and the credentials (SerialResetSpec) *)

\* crud.authenticate_user accepts the password for the email
Accepts(store, email, password) == authenticate_user(store, email, password, TRUE) # NoUser

\* C15 as stated: when reset_password_with_token has saved the account with the
\* new password, every password that was accepted for the email before is
\* rejected, and the new password is accepted.
C15_OldPasswordFailsNewSucceeds ==
    [][\A call \in BagToSet(resetting) :
        ResetSaveUser(call)
        => \A password \in Passwords :
              /\ Accepts(users, call.user.email, password)
                 => ~Accepts(users', call.user.email, password)
              /\ verify_password(password, call.user.hashed_password)
                 => Accepts(users', call.user.email, password) ]_vars

\* C15 amended: when reset_password_with_token has saved the account,
\* crud.authenticate_user accepts for the email exactly the new password: the new
\* password is accepted, and the old password is rejected when it differs from
\* the new one.
C15_ExactlyNewPasswordAccepted ==
    [][\A call \in BagToSet(resetting) :
        ResetSaveUser(call)
        => /\ \E password \in Passwords :
                verify_password(password, call.user.hashed_password)
           /\ \A password \in Passwords :
                Accepts(users', call.user.email, password)
                <=> verify_password(password, call.user.hashed_password) ]_vars

\* C15 witness: a reset has completed for an account whose initial password
\* differed from the new one: the initial password is rejected and another
\* password is accepted
C15_Witness ==
    \E email \in Emails, password \in Passwords :
        /\ reset_result.kind = "result"
        /\ reset_result.outcome = "reset"
        /\ ~Accepts(users, email, InitialPassword)
        /\ Accepts(users, email, password)

\* C16: the token of a successful login is signed, its subject is the email of
\* the account the login verified, its exp is the time of the login plus
\* ACCESS_TOKEN_EXPIRE_MINUTES, and get_current_user resolves it to that account
\* at every time of that span.
C16_LoginTokenResolvesToAccount ==
    (response.kind = "response" /\ response.status = 200)
    => LET token == response.token
           user == FindUser(users, response.identifier)
       IN /\ response.password_hashed
          /\ user # NoUser
          /\ token.kind = "jwt"
          /\ token.sub = user.email
          /\ token.exp = now + ACCESS_TOKEN_EXPIRE_MINUTES * 60
          /\ \A t \in {now, now + 1, now + ACCESS_TOKEN_EXPIRE_MINUTES * 60} :
                LET outcome == get_current_user(users, token, t, TRUE) IN
                outcome.status = 200 /\ outcome.user = user

\* C16 witness: a login endpoint issued a token that get_current_user resolves
C16_Witness ==
    /\ response.kind = "response"
    /\ response.status = 200
    /\ response.token # NoToken
    /\ get_current_user(users, response.token, now, TRUE).status = 200

----------------------------------------------------------------------------
(* Properties of the token records (ResetSpec) *)

\* C17 as stated: a stored token record changes only by is_used going from
\* false to true with used_at set in the same write, which the last step of a
\* reset_password_with_token call makes; a record with is_used true is never
\* written again, and used_at is set exactly in the records with is_used true.
C17_UsedFlagWrittenOnce ==
    [][ /\ \A token \in DOMAIN tokens \cap DOMAIN tokens' :
              tokens'[token] # tokens[token]
              => /\ ~tokens[token].is_used
                 /\ tokens'[token].is_used
                 /\ tokens'[token].used_at = now
                 /\ \E call \in BagToSet(resetting) :
                        call.token_record.token = token /\ ResetMarkUsed(call)
        /\ \A token \in DOMAIN tokens' :
              tokens'[token].is_used <=> tokens'[token].used_at # -1 ]_vars

\* C18: /reset-password answers every call that reset_password_with_token
\* rejects with the one response 400 "Invalid or expired reset token", whether
\* the token is not stored, is used, is expired, or its account is gone.
C18_OneResponseForEveryRejection ==
    /\ \A token \in 0..(next_token - 1) :
          verify_password_reset_token(tokens, token, now) = NoRecord
          => reset_password(Invalid(token))
                = HTTPResponse(400, "Invalid or expired reset token")
    /\ (reset_result.kind = "result" /\ reset_result.outcome = "invalid")
       => reset_password(reset_result) = HTTPResponse(400, "Invalid or expired reset token")

\* C18 witness: a call with a token that was never stored was rejected while a
\* used token and an expired unused token are stored
C18_Witness ==
    /\ reset_result = Invalid(0)
    /\ \E token \in DOMAIN tokens : tokens[token].is_used
    /\ \E token \in DOMAIN tokens :
            ~tokens[token].is_used /\ now > tokens[token].expires_at

\* what the caller of a login endpoint sees of a response
Visible(reply) == [status |-> reply.status, detail |-> reply.detail, token |-> reply.token]

\* C19: every 401 of a login endpoint shows the caller the same status, the
\* same detail of the endpoint and no token, whether the email is unknown or the
\* password is wrong.
C19_UnknownEmailLooksLikeWrongPassword ==
    (response.kind = "response" /\ response.status = 401)
    => Visible(response) = [status |-> 401,
                            detail |-> InvalidCredentialsDetail(response.endpoint),
                            token |-> NoToken]

\* C19 witness: a login with an email that has no account was answered 401
C19_Witness ==
    /\ response.kind = "response"
    /\ response.status = 401
    /\ response.store_queried
    /\ FindUser(users, response.identifier) = NoUser

----------------------------------------------------------------------------
(* Properties of /forgot-password and /resend-password-reset (ResetSpec) *)

\* C20 as stated: the response of forgot_password and of resend_password_reset
\* for an email equals the response the endpoint gives for that email when no
\* account holds it.
C20_ResponseHidesAccountExistence ==
    reset_result.kind = "message"
    => \/ reset_result = forgot_password(NoRecord, reset_result.email)
       \/ reset_result = resend_password_reset(NoRecord, reset_result.email)

----------------------------------------------------------------------------
(* Properties of the login endpoints, continued (LoginSpec) *)

\* the lower-cased, trimmed forms of the emails clients submit
Canonical == { Strip(Lower(email)) : email \in RawEmails }

\* C21: every login endpoint keys the throttle by the lower-cased, trimmed
\* email: every key of the attempt map, every request in flight and every
\* response carries that form, so emails that differ only in case or
\* surrounding whitespace share one attempt window.
C21_ThrottleKeyIsNormalised ==
    /\ DOMAIN _login_attempts \subseteq Canonical
    /\ \A req \in BagToSet(in_flight) : req.identifier \in Canonical
    /\ response # NoResponse => response.identifier \in Canonical
    /\ Throttled(response) => response.identifier = Strip(Lower(response.submitted))

\* C21 witness: a request written " A@X " is throttled by the window of "a@x",
\* whose failures the log holds under that one key
C21_Witness ==
    /\ Throttled(response)
    /\ response.submitted = <<" ", "A", "@", "X", " ">>
    /\ response.identifier = <<"a", "@", "x">>
    /\ DOMAIN failure_log = {<<"a", "@", "x">>}
    /\ Len(failure_log[<<"a", "@", "x">>]) >= _MAX_ATTEMPTS

\* C22 as stated: the attempt map gets an entry for an identifier only when a
\* failure is recorded for it: the throttle check of a login request creates no
\* entry for an identifier that has none, and a successful login leaves none.
C22_EntryOnlyAfterFailure ==
    [][ /\ \A endpoint \in Endpoints, email \in RawEmails :
            ( /\ Strip(Lower(email)) \notin DOMAIN _login_attempts
              /\ LoginStart(endpoint, email) )
            => Strip(Lower(email)) \notin DOMAIN _login_attempts'
        /\ (response'.kind = "response" /\ response'.status = 200)
            => response'.identifier \notin DOMAIN _login_attempts' ]_vars

----------------------------------------------------------------------------
(* The hasher specification: get_password_hash and verify_password applied  *)
(* to passwords and to stored forms, well formed or not                      *)

\* the passwords handed to the hasher: two that differ in one character, two
\* that differ in case, the empty one and one that holds the delimiter
HasherPasswords ==
    { <<"p", "1">>, <<"p", "2">>, <<"P", "1">>, << >>, <<"p", ":">> }

\* the stored forms get_password_hash produces
WellFormed ==
    { PyStr(get_password_hash(password, salt)) :
        password \in HasherPasswords, salt \in Salts }

\* stored forms simple_hash_password never produces: the empty string, strings
\* without the delimiter (among them a bare digest), and values that are no str
Malformed ==
    { PyStr(<< >>), PyStr(<<"$", "2", "b", "$">>), PyStr(Sha256Hex(<<"p", "1">>)),
      PyStr(<<"s", "1">>), PyNone, PyInt }

HasherInit ==
    /\ Started
    /\ hasher \in { HasherCall("stored", << >>, value, FALSE) :
                      value \in WellFormed \cup Malformed }

HasherNext ==
    \/ \E password \in HasherPasswords, salt \in Salts :
            /\ HashPassword(password, salt)
            /\ UNCHANGED <<now, users, login_vars, reset_vars, gate_vars, review_vars>>
    \/ \E password \in HasherPasswords :
            /\ VerifyPassword(password)
            /\ UNCHANGED <<now, users, login_vars, reset_vars, gate_vars, review_vars>>

HasherSpec == HasherInit /\ [][HasherNext]_vars

----------------------------------------------------------------------------
(* Properties of the password hasher (HasherSpec) *)

\* C23: verify_password(p1, get_password_hash(p2)) is true exactly when
\* p1 = p2, whatever salt get_password_hash drew: verification takes the salt
\* from the stored form.
C23_VerifyAcceptsExactlyTheHashedPassword ==
    hasher.op = "verify"
    => \A password \in HasherPasswords, salt \in Salts :
          hasher.hashed_password = PyStr(get_password_hash(password, salt))
          => (hasher.result <=> hasher.password = password)

\* C23 witness: a password verified against its own stored form, whose salt is
\* not the one of the initial accounts
C23_Witness ==
    /\ hasher.op = "verify"
    /\ hasher.result
    /\ hasher.hashed_password = PyStr(get_password_hash(hasher.password, <<"s", "2">>))

\* C24: verify_password returns false for every malformed stored form: a string
\* without the ":" delimiter, the empty string, a value that is not a string.
C24_MalformedStoredFormIsRejected ==
    (hasher.op = "verify" /\ hasher.hashed_password \in Malformed)
    => hasher.result = FALSE

\* C24 witness: the password "p1" checked against a bare digest of "p1" that
\* lacks the salt and the delimiter, and a password checked against None
C24_Witness ==
    /\ hasher.op = "verify"
    /\ ~hasher.result
    /\ \/ /\ hasher.password = <<"p", "1">>
          /\ hasher.hashed_password = PyStr(Sha256Hex(<<"p", "1">>))
       \/ hasher.hashed_password = PyNone

----------------------------------------------------------------------------
(* Properties of the login endpoints, the tokens they issue (LoginSpec) *)

\* C25: a login endpoint issues a token only with its 200, and only for an
\* account that is active and has the role of the endpoint: an admin at
\* admin_login, no admin at affiliate_login and referral_login.
C25_TokenOnlyForActiveAccountOfRole ==
    response.kind = "response"
    => /\ response.token # NoToken <=> response.status = 200
       /\ response.token # NoToken
          => LET user == FindUser(users, response.token.sub) IN
             /\ user # NoUser
             /\ user.is_active
             /\ response.endpoint = "admin_login" => user.is_admin
             /\ response.endpoint \in {"affiliate_login", "referral_login"}
                    => ~user.is_admin

\* C25 witness: referral_login issued a token
C25_Witness ==
    /\ response.kind = "response"
    /\ response.endpoint = "referral_login"
    /\ response.token # NoToken
    /\ ~users[response.token.sub].is_admin

----------------------------------------------------------------------------
(* The review specification: concurrent reviews of the affiliate requests *)

ReviewNext ==
    \/ \E request_id \in RequestIds :
            /\ ApproveGet(request_id)
            /\ UNCHANGED <<now, users, login_vars, reset_vars, gate_vars, hasher_vars>>
    \/ \E call \in BagToSet(reviewing), candidate \in Links :
            /\ ApproveInsertUser(call, candidate)
            /\ UNCHANGED <<now, users, login_vars, reset_vars, gate_vars, hasher_vars>>
    \/ \E call \in BagToSet(reviewing), candidate \in Links :
            /\ ApproveFindLink(call, candidate)
            /\ UNCHANGED <<now, users, login_vars, reset_vars, gate_vars, hasher_vars>>
    \/ \E call \in BagToSet(reviewing) :
            /\ ApproveInsertAffiliate(call)
            /\ UNCHANGED <<now, users, login_vars, reset_vars, gate_vars, hasher_vars>>
    \/ \E call \in BagToSet(reviewing) :
            /\ ApproveSaveRequest(call)
            /\ UNCHANGED <<now, users, login_vars, reset_vars, gate_vars, hasher_vars>>
    \/ \E request_id \in RequestIds :
            /\ RejectGet(request_id)
            /\ UNCHANGED <<now, users, login_vars, reset_vars, gate_vars, hasher_vars>>
    \/ \E call \in BagToSet(reviewing) :
            /\ RejectDelete(call)
            /\ UNCHANGED <<now, users, login_vars, reset_vars, gate_vars, hasher_vars>>

ReviewSpec == Init /\ [][ReviewNext]_vars

----------------------------------------------------------------------------
(* Properties of the review of affiliate requests (ReviewSpec) *)

\* C26 as stated: the unique_link values of all Affiliate records are pairwise
\* distinct.
C26_UniqueLinksAreDistinct ==
    \A i, j \in DOMAIN affiliates :
        i # j => affiliates[i].unique_link # affiliates[j].unique_link

\* the number of User documents inserted for the request
UsersOf(request_id) ==
    Cardinality({ i \in DOMAIN new_users : new_users[i] = request_id })

\* the number of Affiliate documents inserted for the request
AffiliatesOf(request_id) ==
    Cardinality({ i \in DOMAIN affiliates : affiliates[i].request_id = request_id })

\* C27 as stated: for each affiliate request at most one User and at most one
\* Affiliate are created, and at most one call returns an approval or a
\* rejection of it.
C27_RequestProcessedAtMostOnce ==
    \A request_id \in RequestIds :
        /\ UsersOf(request_id) <= 1
        /\ AffiliatesOf(request_id) <= 1
        /\ reviewed[request_id] <= 1

----------------------------------------------------------------------------
(* Properties of the referral gate (GateSpec) *)

\* C28: no token a login endpoint signed carries user_type = "referral", and
\* get_current_referral answers every such token with 401.
C28_LoginTokensFailTheReferralGate ==
    /\ \A token \in issued : token.user_type # "referral"
    /\ (gate_result.kind = "referral_outcome" /\ gate_result.token \in issued)
        => ( /\ gate_result.status = 401
             /\ gate_result.detail = "Could not validate credentials" )

\* C28 witness: the referral gate turned away a login token that is signed,
\* unexpired and belongs to an active account that is no admin, while the
\* store answered
C28_Witness ==
    /\ gate_result.kind = "referral_outcome"
    /\ gate_result.token \in issued
    /\ gate_result.status = 401
    /\ gate_result.store_ok
    /\ ~JWTError(gate_result.token, now)
    /\ FindUser(users, gate_result.token.sub) # NoUser
    /\ ~users[gate_result.token.sub].is_admin

----------------------------------------------------------------------------
(* Properties of the password reset, the rejected calls (SerialResetSpec) *)

\* the calls of reset_password_with_token suspended before they looked for the user
AwaitingUser(bag) == { call \in BagToSet(bag) : call.pc = "find_user" }

\* C29: a call of reset_password_with_token that returns the invalid outcome
\* has changed no account and no token record: neither the step that returns
\* invalid nor the verification step before it writes anything, so a token
\* whose account is missing stays unused.
C29_InvalidResetChangesNothing ==
    [][ ( \/ (reset_result'.kind = "result" /\ reset_result'.outcome = "invalid")
          \/ AwaitingUser(resetting') # AwaitingUser(resetting) )
        => ( /\ users' = users
             /\ tokens' = tokens
             /\ reset_count' = reset_count ) ]_vars

\* C29 witness: a call returned invalid for a token that is stored, unused
\* and unexpired: no account holds its email
C29_Witness ==
    /\ reset_result.kind = "result"
    /\ reset_result.outcome = "invalid"
    /\ reset_result.token \in DOMAIN tokens
    /\ ~tokens[reset_result.token].is_used
    /\ now <= tokens[reset_result.token].expires_at
    /\ FindUser(users, tokens[reset_result.token].email) = NoUser

----------------------------------------------------------------------------
(* Properties of the login endpoints, the frame of a rejection (LoginSpec) *)

\* the response is the 403 of an account that is not active
Deactivated(reply) ==
    reply.kind = "response" /\ reply.status = 403 /\ reply.detail = "Account is deactivated"

\* the attempts of the map that lie in the window trailing now
Recent(map, identifier) ==
    PopStale(Attempts(map, identifier), now - _LOCKOUT_WINDOW_SECONDS)

\* C30: the step that answers a login with 429 or with 403 "Account is
\* deactivated" leaves the failures recorded for the identifier as they were,
\* stale entries aside: none is appended and the window is not cleared.
C30_RejectionLeavesFailuresAlone ==
    [][ (Throttled(response') \/ Deactivated(response'))
        => Recent(_login_attempts', response'.identifier)
             = Recent(_login_attempts, response'.identifier) ]_vars

\* C30 witness: an account that is not active is answered 403 while failures
\* are recorded for its identifier
C30_Witness ==
    /\ Deactivated(response)
    /\ Len(Recent(_login_attempts, response.identifier)) >= 1

====
